---- MODULE Spec2Model ----
(***************************************************************************)
(* A model of ethereum-sdk-rs: the Merkle tree engine of src/merkle.rs     *)
(* (build, get_proof, verify, sort_hash_pair), the two tree-retrieval      *)
(* wrappers of src/lib.rs (get_root_merkle, get_hash_merkle) and the log   *)
(* scanning window of src/lib.rs (new_sync, fetch_event).                  *)
(*                                                                         *)
(* Byte strings are sequences of naturals.  Keccak-256 and SHA-256 are     *)
(* modelled as collision-free: the digest of a byte string is an injective *)
(* encoding of that string (its length followed by its bytes), so two      *)
(* digests are equal exactly when their preimages are.  Digests keep the   *)
(* byte-lexicographic order Rust gives [u8; 32].                           *)
(***************************************************************************)
EXTENDS Integers, Sequences, FiniteSets

\* ------------------------------------------------------------------ bounds

\* Longest leaf list handed to MerkleTree::build.
MaxLeaves == 5

\* The leaf blobs (MerkleTreeData = Vec<u8>): the empty blob, which is also
\* the padding blob, and two one-byte blobs.
Blobs == { <<>>, <<0>>, <<1>> }

RECURSIVE SeqsUpTo(_, _)
\* All sequences over S of length at most n.
SeqsUpTo(S, n) ==
    IF n = 0 THEN { <<>> }
    ELSE LET shorter == SeqsUpTo(S, n - 1)
         IN  shorter \cup { Append(s, x) : s \in { t \in shorter : Len(t) = n - 1 }, x \in S }

\* ------------------------------------------------------- hashing primitives

\* Keccak-256 of a byte string, collision-free: the digest is the length of
\* the preimage followed by the preimage.  A serialized digest pair is at
\* least two bytes long, so no blob of Blobs is one.
keccak256_array(data) == <<Len(data)>> \o data

RECURSIVE HashLess(_, _)
\* first < second on [u8; 32]: byte-lexicographic order.
HashLess(first, second) ==
    IF second = <<>> THEN FALSE
    ELSE IF first = <<>> THEN TRUE
    ELSE IF Head(first) # Head(second) THEN Head(first) < Head(second)
    ELSE HashLess(Tail(first), Tail(second))

\* A pair-ordering that keeps the arguments in the order given.
sort_hash_pair_unsorted(first, second) == <<first, second>>

sort_hash_pair(first, second) ==
    IF HashLess(first, second) THEN <<first, second>> ELSE <<second, first>>

\* serde_json::to_vec of a 2-tuple of digests: the two digests one after the
\* other.  Every digest carries its own length, so the pair is recovered from
\* the bytes, as it is from the JSON text of two 32-element arrays.
to_vec(pair) == pair[1] \o pair[2]

\* The step build (lines 83-86) and verify (lines 26-27) both take.
HashPair(a, b) == keccak256_array(to_vec(sort_hash_pair(a, b)))

\* ------------------------------------------------------------ MerkleTree::build

RECURSIVE LevelLoop(_, _, _)
\* Lines 59-66: st doubles until it reaches the leaf count; st_sum collects
\* the sizes of the levels above.  The result is <<st_sum, st>>.
LevelLoop(st_sum, st, len) ==
    IF st < len THEN LevelLoop(st_sum + st, 2 * st, len) ELSE <<st_sum, st>>

\* Lines 68-70: empty blobs are pushed until the list has st_sum + st items.
PadItems(items, size) ==
    IF Len(items) < size
    THEN items \o [k \in 1..(size - Len(items)) |-> <<>>]
    ELSE items

\* The leaf slots all hashed from the first item.
LeafNodesFirstItem(items, st_sum, st) ==
    [i \in 0..(st_sum + st - 1) |->
        IF i >= st_sum THEN keccak256_array(items[1]) ELSE <<>>]

\* Lines 72-76: the node array, zero-filled, then the st leaf slots hashed.
\* Slot i of the Rust vector is nodes[i]; item k of the Rust vector is
\* items[k + 1].
LeafNodes(items, st_sum, st) ==
    [i \in 0..(st_sum + st - 1) |->
        IF i >= st_sum THEN keccak256_array(items[i - st_sum + 1]) ELSE <<>>]

RECURSIVE InnerNodesLeftTwice(_, _)
\* The inner nodes with the left child read for both halves of the pair.
InnerNodesLeftTwice(nodes, i) ==
    IF i > 0
    THEN LET j == i - 1
         IN  InnerNodesLeftTwice(
                 [nodes EXCEPT ![j] = HashPair(nodes[2 * j + 1], nodes[2 * j + 1])], j)
    ELSE nodes

RECURSIVE InnerNodes(_, _)
\* Lines 78-87: i runs from st_sum - 1 down to 0, each node the hash of its
\* two children at 2i + 1 and 2i + 2.
InnerNodes(nodes, i) ==
    IF i > 0
    THEN LET j == i - 1
         IN  InnerNodes([nodes EXCEPT ![j] = HashPair(nodes[2 * j + 1], nodes[2 * (j + 1)])], j)
    ELSE nodes

RECURSIVE ProofWalkLeft(_, _, _)
\* The sibling walk with the sibling always taken at v - 1.
ProofWalkLeft(nodes, v, result) ==
    IF v > 0
    THEN ProofWalkLeft(nodes, (v - 1) \div 2, Append(result, nodes[v - 1]))
    ELSE result

RECURSIVE ProofWalk(_, _, _)
\* Lines 94-100: the sibling of v is v - 1 when v is even, v + 1 when odd.
ProofWalk(nodes, v, result) ==
    IF v > 0
    THEN LET w == IF v % 2 = 0 THEN v - 1 ELSE v + 1
         IN  ProofWalk(nodes, (v - 1) \div 2, Append(result, nodes[w]))
    ELSE result

\* Lines 89-103: the closure get_proof, index counted from 0.
get_proof(nodes, st_sum, index) == ProofWalk(nodes, index + st_sum, <<>>)

\* How many proofs are collected, with the padded list counted.
ProofCountPadded(items) == LevelLoop(0, 1, Len(items))[2]

\* Line 107: one proof per item of the list as it was passed in.
ProofCount(items) == Len(items)

\* Lines 54-115.  build has no failing path: it returns a tree for every
\* list, so `failed` is FALSE throughout.
build(items) ==
    LET lv     == LevelLoop(0, 1, Len(items))
        st_sum == lv[1]
        st     == lv[2]
        padded == PadItems(items, st_sum + st)
        nodes  == InnerNodes(LeafNodes(padded, st_sum, st), st_sum)
    IN  [ failed |-> FALSE,
          root   |-> nodes[0],
          proofs |-> [k \in 1..ProofCount(items) |-> get_proof(nodes, st_sum, k - 1)] ]

\* -------------------------------------------------------- MerkleTreeRoot::verify

RECURSIVE VerifyFold(_, _)
\* Lines 25-28: the running hash combined with each sibling in proof order.
VerifyFold(hash, proof) ==
    IF proof = <<>> THEN hash
    ELSE VerifyFold(HashPair(hash, Head(proof)), Tail(proof))

\* Lines 23-30.
verify(root, data, proof) == root = VerifyFold(keccak256_array(data), proof)

\* ------------------------------------------------------------------ state

VARIABLES
    pc,      \* which operation ran last
    items,   \* the leaf list passed to build
    tree,    \* MerkleTree { root, proofs } returned by build(items)
    check,   \* the last call of root.verify: leaf index, proof index, result
    comb,    \* the last pair-combination: both argument orders
    edit,    \* how items2 was obtained from items
    items2,  \* an edited copy of the leaf list
    tree2,   \* build(items2)
    block,   \* the block handed to get_root_merkle / get_hash_merkle
    target,  \* the Option argument of the call: index or transaction_hash
    call,    \* what the call returned, or that it panicked or returned Err
    head,    \* the chain head the provider reports
    sync,    \* the SyncData of new_sync / fetch_event
    scan     \* the block range of SyncData.filters, and the range before it

merkleVars == <<items, tree, check, comb, edit, items2, tree2>>
libVars    == <<block, target, call>>
syncVars   == <<head, sync, scan>>
vars       == <<pc, merkleVars, libVars, syncVars>>

NoTree  == [failed |-> FALSE, root |-> <<>>, proofs |-> <<>>]
NoCheck == [data |-> 0, proof |-> 0, ok |-> FALSE]
NoComb  == [a |-> <<>>, b |-> <<>>, ab |-> <<>>, ba |-> <<>>, hab |-> <<>>, hba |-> <<>>]

None    == [some |-> FALSE, val |-> 0]
Some(x) == [some |-> TRUE, val |-> x]

NoBlock == [transactions |-> <<>>, transactions_root |-> 0, receipts |-> <<>>]
NoCall  == [failed |-> FALSE, err |-> FALSE, requests |-> 0,
            root |-> <<>>, proof |-> <<>>, item |-> <<>>, index |-> 0]
NoSync  == [cur |-> 0, from |-> 0, n |-> 0, gap |-> 0]
NoScan  == [calls |-> 0, from |-> 0, to |-> 0, prev_to |-> 0, started_ok |-> FALSE,
            rpc_failed |-> FALSE, mined |-> FALSE]

MerkleIdle ==
    /\ tree = NoTree
    /\ check = NoCheck
    /\ comb = NoComb
    /\ edit = "none"
    /\ items2 = <<>>
    /\ tree2 = NoTree

LibIdle  == block = NoBlock /\ target = None /\ call = NoCall
SyncIdle == head = 0 /\ sync = NoSync /\ scan = NoScan

MerkleInit ==
    /\ pc = "init"
    /\ items \in SeqsUpTo(Blobs, MaxLeaves)
    /\ MerkleIdle
    /\ LibIdle
    /\ SyncIdle

\* MerkleTree::build(&items).
Build ==
    /\ pc = "init"
    /\ tree' = build(items)
    /\ pc' = "built"
    /\ UNCHANGED <<items, check, comb, edit, items2, tree2, libVars, syncVars>>

\* tree.root.verify(&items[i], &tree.proofs[j]), as the tests call it.
Verify(i, j) ==
    /\ pc = "built"
    /\ i \in 1..Len(items)
    /\ j \in 1..Len(tree.proofs)
    /\ check' = [data |-> i, proof |-> j, ok |-> verify(tree.root, items[i], tree.proofs[j])]
    /\ pc' = "verified"
    /\ UNCHANGED <<items, tree, comb, edit, items2, tree2, libVars, syncVars>>

\* The digests a built tree hands out: its root and the siblings of its proofs.
TreeDigests(t) == {t.root} \cup UNION { { t.proofs[k][m] : m \in 1..Len(t.proofs[k]) } : k \in 1..Len(t.proofs) }

\* One pair-combination step on two digests, in both argument orders.
Combine(a, b) ==
    /\ pc = "built"
    /\ comb' = [ a   |-> a,
                 b   |-> b,
                 ab  |-> sort_hash_pair(a, b),
                 ba  |-> sort_hash_pair(b, a),
                 hab |-> HashPair(a, b),
                 hba |-> HashPair(b, a) ]
    /\ pc' = "combined"
    /\ UNCHANGED <<items, tree, check, edit, items2, tree2, libVars, syncVars>>

\* A second tree built from an edited copy of the list.
Rebuild(kind, list) ==
    /\ pc = "built"
    /\ Len(items) >= 1
    /\ Len(list) >= 1
    /\ edit' = kind
    /\ items2' = list
    /\ tree2' = build(list)
    /\ pc' = "rebuilt"
    /\ UNCHANGED <<items, tree, check, comb, libVars, syncVars>>

SwapAt(s, i, j) == [s EXCEPT ![i] = s[j], ![j] = s[i]]
InsertAt(s, k, x) == SubSeq(s, 1, k - 1) \o <<x>> \o SubSeq(s, k, Len(s))
DeleteAt(s, k) == SubSeq(s, 1, k - 1) \o SubSeq(s, k + 1, Len(s))

Reorder(i, j) == i < j /\ Rebuild("reorder", SwapAt(items, i, j))
Insert(k, x)  == Rebuild("insert", InsertAt(items, k, x))
Delete(k)     == Rebuild("delete", DeleteAt(items, k))
Mutate(k, x)  == x # items[k] /\ Rebuild("mutate", [items EXCEPT ![k] = x])

MerkleNext ==
    \/ Build
    \/ \E i, j \in 1..Len(items) : Verify(i, j)
    \/ \E a, b \in TreeDigests(tree) : Combine(a, b)
    \/ \E i, j \in 1..Len(items) : Reorder(i, j)
    \/ \E k \in 1..(Len(items) + 1), x \in Blobs : Insert(k, x)
    \/ \E k \in 1..Len(items) : Delete(k)
    \/ \E k \in 1..Len(items), x \in Blobs : Mutate(k, x)

Spec == MerkleInit /\ [][MerkleNext]_vars

\* ----------------------------------------------- lib.rs: index-keyed retrieval

\* Most transactions in a block.
MaxTxs == 3

\* string_to_crypto_hash (merkle.rs): SHA-256 of a string, collision-free.
string_to_crypto_hash(input) == <<Len(input)>> \o input

\* lib.rs 141-154 / 170-183: the JSON bytes of the Transaction projection of
\* a receipt.  Distinct receipts give distinct bytes; the projection is
\* modelled by the two fields that identify the receipt.
ReceiptBlob(receipt) == <<receipt.transaction_hash, receipt.transaction_index>>

\* The answers the node can give to one receipt request.
ReceiptAnswers == {"some", "none", "err"}

\* lib.rs 113-118: get_transaction_receipt(tx_hash) for the k-th transaction
\* of the block.  The request fails (Err), or the node answers Ok(Some) with
\* the receipt or Ok(None).
Receipt(b, k) ==
    IF b.receipts[k] = "err" THEN [err |-> TRUE, some |-> FALSE, val |-> 0]
    ELSE IF b.receipts[k] = "some"
    THEN [err |-> FALSE, some |-> TRUE,
          val |-> [transaction_hash |-> b.transactions[k], transaction_index |-> k - 1]]
    ELSE [err |-> FALSE, some |-> FALSE, val |-> 0]

RECURSIVE RootLoop(_, _, _, _, _, _)
\* lib.rs 165-191: the items collected from the receipts that exist, and i,
\* the position (from 0) of the receipt whose transaction_index is the one
\* asked for; i stays 0 when there is none.  A failed request ends the loop
\* and the call (`?` on line 169).  The result is <<items, i, whether a
\* request failed, how many requests were made>>.
RootLoop(b, index, k, list, i, count) ==
    IF k > Len(b.transactions) THEN <<list, i, FALSE, k - 1>>
    ELSE LET r == Receipt(b, k)
         IN  IF r.err THEN <<list, i, TRUE, k>>
             ELSE IF r.some
             THEN RootLoop(b, index, k + 1, Append(list, ReceiptBlob(r.val)),
                           IF index.some /\ r.val.transaction_index = index.val THEN count ELSE i,
                           count + 1)
             ELSE RootLoop(b, index, k + 1, list, i, count)

\* lib.rs 160-195.  The call returns Err when a receipt request failed
\* (failed and err), panics on merkle.proofs[i] (index out of bounds) when no
\* receipt was collected (failed, not err), and returns Ok otherwise.
get_root_merkle(b, index) ==
    LET lp     == RootLoop(b, index, 1, <<>>, 0, 0)
        list   == lp[1]
        i      == lp[2]
        merkle == build(list)
    IN  IF lp[3]
        THEN [NoCall EXCEPT !.failed = TRUE, !.err = TRUE, !.requests = lp[4]]
        ELSE IF i + 1 \in 1..Len(merkle.proofs)
        THEN [failed |-> FALSE, err |-> FALSE, requests |-> lp[4], root |-> merkle.root,
              proof |-> merkle.proofs[i + 1], item |-> list[i + 1], index |-> i]
        ELSE [NoCall EXCEPT !.failed = TRUE, !.requests = lp[4], !.index = i]

\* lib.rs 127-135: each identifier serialized, SHA-256 hashed, as a blob.
\* serde_json::to_string of an H256 is its quoted hex text, one text per hash.
data_slice(datas) == [k \in 1..Len(datas) |-> string_to_crypto_hash(<<datas[k]>>)]

\* Iterator::position: the first place (from 0) holding hx, if any.
Position(list, hx) ==
    IF \E k \in 1..Len(list) : list[k] = hx
    THEN Some((CHOOSE k \in 1..Len(list) : list[k] = hx /\ \A m \in 1..(k - 1) : list[m] # hx) - 1)
    ELSE None

\* lib.rs 197-215.  expect("Transaction hash not found") panics.  The call
\* asks the node nothing.
get_hash_merkle(b, transaction_hash) ==
    LET tx_hashs == Append(b.transactions, b.transactions_root)
        found    == IF transaction_hash.some THEN Position(tx_hashs, transaction_hash.val)
                    ELSE Some(0)
        merkle   == build(data_slice(tx_hashs))
    IN  IF found.some
        THEN [failed |-> FALSE, err |-> FALSE, requests |-> 0, root |-> merkle.root,
              proof |-> merkle.proofs[found.val + 1],
              item |-> data_slice(tx_hashs)[found.val + 1], index |-> found.val]
        ELSE [NoCall EXCEPT !.failed = TRUE]

\* Transaction hashes are 1..MaxTxs, the block's transactions_root is
\* MaxTxs + 1, and 0 is a hash no block holds.
Distinct(list) == \A a, b \in 1..Len(list) : a # b => list[a] # list[b]

Blocks ==
    { [transactions |-> txs, transactions_root |-> MaxTxs + 1, receipts |-> rs] :
        txs \in { t \in SeqsUpTo(1..MaxTxs, MaxTxs) : Distinct(t) },
        rs \in SeqsUpTo(ReceiptAnswers, MaxTxs) }

LibInit ==
    /\ pc = "init"
    /\ block \in { b \in Blocks : Len(b.receipts) = Len(b.transactions) }
    /\ target = None
    /\ call = NoCall
    /\ items = <<>>
    /\ MerkleIdle
    /\ SyncIdle

\* get_root_merkle(&block, index).
GetRootMerkle(index) ==
    /\ pc = "init"
    /\ target' = index
    /\ call' = get_root_merkle(block, index)
    /\ pc' = "root_merkle"
    /\ UNCHANGED <<block, merkleVars, syncVars>>

\* get_hash_merkle(&block, transaction_hash).
GetHashMerkle(transaction_hash) ==
    /\ pc = "init"
    /\ target' = transaction_hash
    /\ call' = get_hash_merkle(block, transaction_hash)
    /\ pc' = "hash_merkle"
    /\ UNCHANGED <<block, merkleVars, syncVars>>

LibNext ==
    \/ \E index \in {None} \cup { Some(c) : c \in 0..MaxTxs } : GetRootMerkle(index)
    \/ \E h \in {None} \cup { Some(c) : c \in 0..(MaxTxs + 1) } : GetHashMerkle(h)

SpecLib == LibInit /\ [][LibNext]_vars

\* --------------------------------------------------- lib.rs: the log scan window

\* new_sync, line 34: cur is the head less 3.
NewSyncLag == 3
\* new_sync, line 44: n, the most blocks one chunk covers.
SyncN == 50000
\* new_sync, line 45: gap, how far behind the head fetch_event keeps cur.
SyncGap == 3

\* Most fetch_event calls on one SyncData.
MaxCalls == 4

\* lib.rs 33-47.  The filter's block range is kept in scan, not in sync.
new_sync(h, from) == [cur |-> h - NewSyncLag, from |-> from, n |-> SyncN, gap |-> SyncGap]

\* lib.rs 54-59: the last block of the range this call asks for.
Limit(sd, chunked) == IF chunked THEN sd.from + sd.n - 1 ELSE sd.cur

\* lib.rs 67-74, chunked branch: from moves past the range; cur stays.
AfterChunk(sd) == [sd EXCEPT !.from = Limit(sd, TRUE) + 1]

\* lib.rs 71, catch-up branch: from is set to the end of the range before
\* get_block_number is awaited.
AfterCatchUp(sd) == [sd EXCEPT !.from = Limit(sd, FALSE)]

\* lib.rs 72-73, catch-up branch: cur is the head less gap, the head being
\* the one the provider reports when it answers.
AfterNumber(sd, h) == [sd EXCEPT !.cur = h - sd.gap]

\* The chain head when new_sync is called: at least the 3 blocks new_sync
\* subtracts, below and above one chunk of n blocks.
SyncInit ==
    /\ pc = "init"
    /\ head \in { NewSyncLag, NewSyncLag + 2, SyncN + NewSyncLag, SyncN + NewSyncLag + 1,
                  2 * SyncN + NewSyncLag + 5 }
    /\ sync = NoSync
    /\ scan = NoScan
    /\ items = <<>>
    /\ MerkleIdle
    /\ LibIdle

\* client.new_sync(from, events), at the answer of get_block_number (the
\* call writes nothing before it).  The filter of the new SyncData holds the
\* block range [from, cur] (lines 39-43).  When get_block_number fails the
\* call returns Err and there is no SyncData.
NewSync(from, numberOk) ==
    /\ pc = "init"
    /\ IF numberOk
       THEN /\ sync' = new_sync(head, from)
            /\ scan' = [NoScan EXCEPT !.started_ok = (from <= head - NewSyncLag),
                                      !.from = from, !.to = head - NewSyncLag]
            /\ pc' = "synced"
       ELSE /\ pc' = "no_sync"
            /\ UNCHANGED <<sync, scan>>
    /\ UNCHANGED <<head, items, merkleVars, libVars>>

\* fetch_event is an async fn: it runs to its next await, where the caller's
\* executor gets control back, and goes on when the provider has answered.
\* pc is "synced" between two calls, "await_number" while get_block_number
\* (line 72) is pending and "await_logs" while get_logs (line 75) is pending.
InFetch == pc \in {"await_number", "await_logs"}

\* The chain grows by d blocks, once between two steps of the scan: between
\* two calls, or while a call waits for the provider.
Mine(d) ==
    /\ pc = "synced" \/ InFetch
    /\ ~scan.mined
    /\ scan.calls < MaxCalls \/ InFetch
    /\ head' = head + d
    /\ scan' = [scan EXCEPT !.mined = TRUE]
    /\ UNCHANGED <<pc, sync, items, merkleVars, libVars>>

\* The range [from, limit] the call puts in sync_data.filters (lines 61-65)
\* and the end of the range the filter held before (the previous call's, or
\* new_sync's on the first call).
Record(sd, chunked) ==
    [scan EXCEPT !.calls = @ + 1, !.prev_to = scan.to, !.from = sd.from,
                 !.to = Limit(sd, chunked), !.mined = FALSE]

\* A provider request has answered, or failed.
Answered(rpcOk) == [scan EXCEPT !.rpc_failed = @ \/ ~rpcOk, !.mined = FALSE]

\* fetch_event up to its first await, cur - from > n (lines 53-75): the
\* filter and from are written for one chunk of n blocks, and get_logs is
\* requested.
FetchChunk ==
    /\ pc = "synced"
    /\ scan.calls < MaxCalls
    /\ sync.from <= sync.cur
    /\ sync.cur - sync.from > sync.n
    /\ sync' = AfterChunk(sync)
    /\ scan' = Record(sync, TRUE)
    /\ pc' = "await_logs"
    /\ UNCHANGED <<head, items, merkleVars, libVars>>

\* fetch_event up to its first await, cur - from <= n (lines 53-72): after
\* the sleep the filter and from are written for the rest up to cur, and
\* get_block_number is requested; cur is not yet written.
FetchCatchUp ==
    /\ pc = "synced"
    /\ scan.calls < MaxCalls
    /\ sync.from <= sync.cur
    /\ sync.cur - sync.from <= sync.n
    /\ sync' = AfterCatchUp(sync)
    /\ scan' = Record(sync, FALSE)
    /\ pc' = "await_number"
    /\ UNCHANGED <<head, items, merkleVars, libVars>>

\* fetch_event with from above cur: the u64 subtraction cur - from overflows.
\* A debug build panics; a release build wraps to a value above n and takes
\* the chunked branch.
FetchOverflow(wraps) ==
    /\ pc = "synced"
    /\ scan.calls < MaxCalls
    /\ sync.from > sync.cur
    /\ IF wraps
       THEN /\ sync' = AfterChunk(sync)
            /\ scan' = Record(sync, TRUE)
            /\ pc' = "await_logs"
       ELSE /\ pc' = "panicked"
            /\ UNCHANGED <<sync, scan>>
    /\ UNCHANGED <<head, items, merkleVars, libVars>>

\* get_block_number answers (lines 72-75): cur is written from the head as
\* it is now and get_logs is requested; or it fails and `?` ends the call
\* with from written and cur not.
NumberAnswer(numberOk) ==
    /\ pc = "await_number"
    /\ sync' = IF numberOk THEN AfterNumber(sync, head) ELSE sync
    /\ scan' = Answered(numberOk)
    /\ pc' = IF numberOk THEN "await_logs" ELSE "synced"
    /\ UNCHANGED <<head, items, merkleVars, libVars>>

\* get_logs answers or fails (lines 75-76): the call returns; sync_data
\* stays as written.
LogsAnswer(logsOk) ==
    /\ pc = "await_logs"
    /\ scan' = Answered(logsOk)
    /\ pc' = "synced"
    /\ UNCHANGED <<head, sync, items, merkleVars, libVars>>

SyncNext ==
    \/ \E from \in {0, 1, head - NewSyncLag, head}, numberOk \in BOOLEAN : NewSync(from, numberOk)
    \/ \E d \in {1, SyncN, SyncN + 1} : Mine(d)
    \/ FetchChunk
    \/ FetchCatchUp
    \/ \E wraps \in BOOLEAN : FetchOverflow(wraps)
    \/ \E numberOk \in BOOLEAN : NumberAnswer(numberOk)
    \/ \E logsOk \in BOOLEAN : LogsAnswer(logsOk)

SpecSync == SyncInit /\ [][SyncNext]_vars

\* ------------------------------------------------- properties of the tree engine

\* The padded leaf count of the data model: the smallest power of two >= n.
PowersOfTwo == { 2 ^ k : k \in 0..(MaxLeaves + 1) }
PaddedSize(n) == CHOOSE p \in PowersOfTwo : p >= n /\ \A q \in PowersOfTwo : q >= n => p <= q
Log2(p) == CHOOSE k \in 0..(MaxLeaves + 1) : 2 ^ k = p

RootsDiffer == tree2.root # tree.root

\* C1: a leaf verifies against its own proof and the root of its tree, for
\* every non-empty list, padded or not, with repeated or empty blobs.
C1_OwnProofVerifies ==
    (pc = "verified" /\ check.data = check.proof) => check.ok

C1_Witness ==
    /\ pc = "verified"
    /\ check.data = check.proof
    /\ check.ok
    /\ Len(items) = 3
    /\ items[check.data] = <<>>
    /\ \E k \in 1..Len(items) : k # check.data /\ items[k] = items[check.data]

\* C2 as stated: leaf i never verifies against the proof of another index j.
C2_OtherProofRejected ==
    (pc = "verified" /\ Len(items) >= 2 /\ check.data # check.proof) => ~check.ok

\* C2 amended: leaf i does not verify against the proof of index j when the
\* two leaves hold different blobs.
C2_OtherBlobRejected ==
    (pc = "verified" /\ Len(items) >= 2 /\ check.data # check.proof
        /\ items[check.data] # items[check.proof]) => ~check.ok

C2_Witness ==
    /\ pc = "verified"
    /\ Len(items) = 3
    /\ check.data # check.proof
    /\ items[check.data] # items[check.proof]
    /\ ~check.ok

ProofShape(list, t) ==
    /\ Len(t.proofs) = Len(list)
    /\ \A k \in 1..Len(t.proofs) : Len(t.proofs[k]) = Log2(PaddedSize(Len(list)))

\* C3: build returns one proof per original leaf, each of length log2 of the
\* padded leaf count.
C3_ProofCountAndLength ==
    /\ (pc # "init" /\ Len(items) >= 1) => ProofShape(items, tree)
    /\ pc = "rebuilt" => ProofShape(items2, tree2)

C3_Witness ==
    /\ pc = "built"
    /\ Len(items) = 5
    /\ Len(tree.proofs) = 5
    /\ \A k \in 1..5 : Len(tree.proofs[k]) = 3

\* C4: build on the empty list fails and returns no tree.
C4_EmptyListFails ==
    (pc # "init" /\ items = <<>>) => tree.failed

\* C5: a rearrangement that differs from the list as a sequence changes the root.
C5_ReorderChangesRoot ==
    (pc = "rebuilt" /\ edit = "reorder" /\ items2 # items) => RootsDiffer

\* C6: inserting or deleting one leaf changes the root.
C6_InsertDeleteChangesRoot ==
    (pc = "rebuilt" /\ edit \in {"insert", "delete"}) => RootsDiffer

\* C7: replacing one leaf by a different blob changes the root.
C7_MutationChangesRoot ==
    (pc = "rebuilt" /\ edit = "mutate") => RootsDiffer

C7_Witness ==
    /\ pc = "rebuilt"
    /\ edit = "mutate"
    /\ Len(items) = 3
    /\ items[3] = <<>>
    /\ items2[3] # <<>>
    /\ RootsDiffer

\* C9: the pair-combination is commutative, puts the byte-lexicographically
\* smaller digest first, and is the rule build applies to the two leaves of a
\* two-leaf tree and verify applies to a leaf and its sibling.
C9_CombineCommutes ==
    /\ pc = "combined" =>
          /\ comb.hab = comb.hba
          /\ comb.ab = comb.ba
          /\ comb.ab \in { <<comb.a, comb.b>>, <<comb.b, comb.a>> }
          /\ ~HashLess(comb.ab[2], comb.ab[1])
    /\ (pc # "init" /\ Len(items) = 2) =>
          LET h1 == keccak256_array(items[1])
              h2 == keccak256_array(items[2])
          IN  tree.root = IF HashLess(h1, h2)
                          THEN keccak256_array(h1 \o h2)
                          ELSE keccak256_array(h2 \o h1)
    /\ (pc = "verified" /\ Len(items) = 2 /\ check.ok) =>
          LET h == keccak256_array(items[check.data])
              sib == tree.proofs[check.proof][1]
          IN  tree.root = IF HashLess(h, sib)
                          THEN keccak256_array(h \o sib)
                          ELSE keccak256_array(sib \o h)

C9_Witness ==
    /\ pc = "combined"
    /\ comb.a # comb.b
    /\ HashLess(comb.b, comb.a)
    /\ comb.ab = <<comb.b, comb.a>>
    /\ comb.hab = comb.hba

\* ------------------------------------------- properties of the retrieval calls

\* The target of the last call names no leaf of the list the call assembled.
TargetMatchesNoLeaf ==
    /\ target.some
    /\ pc = "root_merkle" =>
          ~\E k \in 1..Len(block.transactions) :
                block.receipts[k] = "some" /\ k - 1 = target.val
    /\ pc = "hash_merkle" =>
          /\ target.val # block.transactions_root
          /\ ~\E k \in 1..Len(block.transactions) : block.transactions[k] = target.val

\* C8: a call whose target matches no leaf fails; only a call without a
\* target defaults to position 0.
C8_UnmatchedTargetFails ==
    (pc \in {"root_merkle", "hash_merkle"} /\ TargetMatchesNoLeaf) => call.failed

\* --------------------------------------------------- properties of the log scan

\* C10: from a SyncData with from <= cur, each call's range begins one block
\* after the previous call's range ended, in both branches.  Stated for the
\* runs in which every provider request answered.
C10_RangesTile ==
    ((pc = "synced" \/ InFetch) /\ scan.started_ok /\ ~scan.rpc_failed /\ scan.calls >= 2)
        => scan.from = scan.prev_to + 1

====
